---- MODULE Spec2Model ----
(***************************************************************************)
(* Model of the /suggest handler of app.py: the request coercion, the      *)
(* credential check, the two sequential calls to the external text         *)
(* service, the sanitizer (clean_text), the validator (parse_json_array)   *)
(* and the three ways the handler builds its response.                     *)
(*                                                                         *)
(* Text is a sequence of symbols.  A symbol is one character, except the   *)
(* symbols "think" and "THINK", which stand for those five letters in      *)
(* lower and upper case, and the fixed messages of the handler, which are  *)
(* never inspected character by character.                                 *)
(***************************************************************************)
EXTENDS Integers, Sequences, FiniteSets, TLC

LB == "["
RB == "]"
QT == "\""
CM == ","
SP == " "
NL == "\n"
LT == "<"
GT == ">"
SL == "/"

\* Python's str.strip() with no argument removes these from both ends.
PyWhitespace == {SP, NL}
\* json.decoder.WHITESPACE
JsonWhitespace == {SP, NL}
Digits == {"2"}
ThinkWord == {"think", "THINK"}

----------------------------------------------------------------------------
(* Text *)

\* a text: a finite sequence of symbols
Text == Seq(STRING)

\* Body applied to the value of e
With(e, Body(_)) == CHOOSE r \in {Body(v) : v \in {e}} : TRUE

----------------------------------------------------------------------------
(* str.strip() *)

LStrip[s \in Text] ==
  IF s = <<>> THEN <<>>
  ELSE IF Head(s) \in PyWhitespace THEN LStrip[Tail(s)] ELSE s

RStrip[s \in Text] ==
  IF s = <<>> THEN <<>>
  ELSE IF s[Len(s)] \in PyWhitespace THEN RStrip[SubSeq(s, 1, Len(s) - 1)] ELSE s

Strip(s) == RStrip[LStrip[s]]

----------------------------------------------------------------------------
(* clean_text *)

\* "<think>" at position i, case-insensitively (re.I)
OpenThinkAt(s, i) ==
  /\ i + 2 <= Len(s)
  /\ s[i] = LT /\ s[i + 1] \in ThinkWord /\ s[i + 2] = GT

\* "</think>" at position j
CloseThinkAt(s, j) ==
  /\ j + 3 <= Len(s)
  /\ s[j] = LT /\ s[j + 1] = SL /\ s[j + 2] \in ThinkWord /\ s[j + 3] = GT

\* the least element of a non-empty set of positions
Least(S) == CHOOSE c \in S : \A d \in S : c <= d

\* re.sub(r"<think>.*?</think>", "", text, flags=re.S | re.I), from
\* position i on: at each position, leftmost first, the shortest span from
\* "<think>" to the first "</think>" after it is dropped; the dot matches
\* newlines (re.S).
SubThink[s \in Text, i \in Nat] ==
  IF i > Len(s) THEN <<>>
  ELSE LET closes == {j \in (i + 3)..Len(s) : CloseThinkAt(s, j)}
       IN IF OpenThinkAt(s, i) /\ closes # {}
          THEN SubThink[s, Least(closes) + 4]
          ELSE <<s[i]>> \o SubThink[s, i + 1]

\* re.sub(r"<.*?>", "", text), from position i on: no re.S, so the dot
\* does not match "\n"; the span runs from "<" to the first ">" after it
\* and matches only when no newline lies between them.
SubTags[s \in Text, i \in Nat] ==
  IF i > Len(s) THEN <<>>
  ELSE LET gts == {j \in (i + 1)..Len(s) : s[j] = GT}
       IN IF /\ s[i] = LT /\ gts # {}
             /\ \A k \in (i + 1)..(Least(gts) - 1) : s[k] # NL
          THEN SubTags[s, Least(gts) + 1]
          ELSE <<s[i]>> \o SubTags[s, i + 1]

\* as clean_text, but stripping before the substitutions, not after
clean_text_StripFirst(text) ==
  IF text = <<>> THEN <<>>
  ELSE SubTags[SubThink[Strip(text), 1], 1]

\* as clean_text, without the first substitution
clean_text_NoThink(text) ==
  IF text = <<>> THEN <<>>
  ELSE Strip(SubTags[text, 1])

clean_text(text) ==
  IF text = <<>> THEN <<>>
  ELSE Strip(SubTags[SubThink[text, 1], 1])

----------------------------------------------------------------------------
(* json.loads, restricted to the values the symbols can spell: strings,    *)
(* unsigned integers and arrays of these.  A string or a number is         *)
(* [type, s] with s its characters; an array keeps the type and the        *)
(* characters of each of its items (of an item that is itself an array,    *)
(* only the type).  A parse yields [ok |-> TRUE, val |-> v, end |-> i]     *)
(* with i the position after the value, or JsonFail where json raises      *)
(* JSONDecodeError.                                                        *)

JsonItem(type, s) == [type |-> type, s |-> s]
JsonValue(type, s, items) == [type |-> type, s |-> s, items |-> items]

JsonFail == [ok |-> FALSE, val |-> JsonValue("none", <<>>, <<>>), end |-> 0]
JsonOk(v, end) == [ok |-> TRUE, val |-> v, end |-> end]

SkipWs[s \in Text, i \in Nat] ==
  IF i <= Len(s) /\ s[i] \in JsonWhitespace THEN SkipWs[s, i + 1] ELSE i

\* py_scanstring with strict=True: s[i] is the opening quote; the string
\* ends at the next quote and may not hold a control character.
ScanString(s, i) ==
  LET qs == {j \in (i + 1)..Len(s) : s[j] = QT}
  IN IF qs = {} THEN JsonFail
     ELSE IF \E k \in (i + 1)..(Least(qs) - 1) : s[k] = NL THEN JsonFail
     ELSE JsonOk(JsonValue("str", SubSeq(s, i + 1, Least(qs) - 1), <<>>),
                 Least(qs) + 1)

\* NUMBER_RE: the longest run of digits from position i
ScanDigits[s \in Text, i \in Nat] ==
  IF i <= Len(s) /\ s[i] \in Digits THEN ScanDigits[s, i + 1] ELSE i

ScanNumber(s, i) ==
  JsonOk(JsonValue("num", SubSeq(s, i, ScanDigits[s, i] - 1), <<>>),
         ScanDigits[s, i])

RECURSIVE ScanOnce(_, _)

\* JSONArray's loop from position i: a value, then "]" (done) or ","
\* (another value).  The result holds the items read from i on.
ScanItems[s \in Text, i \in Nat] ==
  With(ScanOnce(s, i), LAMBDA v :
    IF ~v.ok THEN [ok |-> FALSE, items |-> <<>>, end |-> 0]
    ELSE With(SkipWs[s, v.end], LAMBDA e :
      IF e > Len(s) THEN [ok |-> FALSE, items |-> <<>>, end |-> 0]
      ELSE IF s[e] = RB
        THEN [ok |-> TRUE, items |-> <<JsonItem(v.val.type, v.val.s)>>, end |-> e + 1]
      ELSE IF s[e] = CM
        THEN With(ScanItems[s, SkipWs[s, e + 1]], LAMBDA more :
               [ok |-> more.ok,
                items |-> <<JsonItem(v.val.type, v.val.s)>> \o more.items,
                end |-> more.end])
      ELSE [ok |-> FALSE, items |-> <<>>, end |-> 0]))

\* JSONArray: s[i] is "["
ScanArray(s, i) ==
  With(SkipWs[s, i + 1], LAMBDA e :
    IF e <= Len(s) /\ s[e] = RB
    THEN JsonOk(JsonValue("list", <<>>, <<>>), e + 1)
    ELSE With(ScanItems[s, e], LAMBDA r :
           IF ~r.ok THEN JsonFail
           ELSE JsonOk(JsonValue("list", <<>>, r.items), r.end)))

\* scanner.py_make_scanner._scan_once
ScanOnce(s, i) ==
  IF i > Len(s) THEN JsonFail
  ELSE IF s[i] = QT THEN ScanString(s, i)
  ELSE IF s[i] = LB THEN ScanArray(s, i)
  ELSE IF s[i] \in Digits THEN ScanNumber(s, i)
  ELSE JsonFail

\* JSONDecoder.decode: one value, whitespace around it, nothing after it
json_loads(s) ==
  With(ScanOnce(s, SkipWs[s, 1]), LAMBDA v :
    IF ~v.ok THEN JsonFail
    ELSE IF SkipWs[s, v.end] # Len(s) + 1 THEN JsonFail
    ELSE v)

----------------------------------------------------------------------------
(* parse_json_array *)

None == [none |-> TRUE, list |-> <<>>]
Some(l) == [none |-> FALSE, list |-> l]

\* [x.strip() for x in parsed if x.strip()]
\* the items of an array of strings
StringItems == Seq([type : STRING, s : Text])

StripNonBlank[items \in StringItems] ==
  IF items = <<>> THEN <<>>
  ELSE IF Strip(Head(items).s) # <<>>
    THEN <<Strip(Head(items).s)>> \o StripNonBlank[Tail(items)]
  ELSE StripNonBlank[Tail(items)]

\* as parse_json_array, but the elements are returned as they came:
\* [x for x in parsed if x.strip()]
parse_json_array_NoStrip(text) ==
  With(json_loads(text), LAMBDA parsed :
    IF ~parsed.ok THEN None
    ELSE IF /\ parsed.val.type = "list"
            /\ \A k \in 1..Len(parsed.val.items) : parsed.val.items[k].type = "str"
      THEN Some(LET kept == SelectSeq(parsed.val.items, LAMBDA x : Strip(x.s) # <<>>)
                IN [k \in 1..Len(kept) |-> kept[k].s])
    ELSE None)

\* as parse_json_array, but an element that is not a string is skipped
\* where the code rejects the list
parse_json_array_SkipNonStrings(text) ==
  With(json_loads(text), LAMBDA parsed :
    IF ~parsed.ok THEN None
    ELSE IF parsed.val.type = "list"
      THEN Some(StripNonBlank[SelectSeq(parsed.val.items, LAMBDA x : x.type = "str")])
    ELSE None)

parse_json_array(text) ==
  With(json_loads(text), LAMBDA parsed :
    IF ~parsed.ok THEN None
    ELSE IF /\ parsed.val.type = "list"
            /\ \A k \in 1..Len(parsed.val.items) : parsed.val.items[k].type = "str"
      THEN Some(StripNonBlank[parsed.val.items])
    ELSE None)

\* Python truth value of the validator's result: None and [] are falsy
Truthy(p) == ~p.none /\ p.list # <<>>

----------------------------------------------------------------------------
(* Bounds and the inputs drawn from them *)

\* longest array the external service's answer spells
MaxItems == 2

\* JSON source of the items an answer can hold: a string that needs
\* trimming, a blank string, and a number
ItemPool == { <<QT, SP, "a", SP, QT>>, <<QT, SP, QT>>, <<"2">> }

RECURSIVE JoinItems(_)
JoinItems(items) ==
  IF items = <<>> THEN <<>>
  ELSE IF Len(items) = 1 THEN items[1]
  ELSE items[1] \o <<CM, SP>> \o JoinItems(Tail(items))

ArrayText(items) == <<LB>> \o JoinItems(items) \o <<RB>>

ArrayTexts ==
  { ArrayText(items) : items \in UNION { [1..n -> ItemPool] : n \in 0..MaxItems } }

\* what a model wraps around its answer: nothing, a reasoning trace before
\* it, presentation markup around it
Wrapped(t) ==
  { t,
    <<LT, "think", GT, "b", NL, LT, SL, "THINK", GT, NL>> \o t,
    <<LT, "b", GT>> \o t \o <<LT, SL, "b", GT, NL>> }

ServiceTexts ==
  UNION { Wrapped(t) : t \in ArrayTexts }
    \cup { <<>>, <<"a", SP, "b">>, <<QT, "a", QT>>, <<"a">> \o ArrayText(<<>>),
           ArrayText(<< <<QT, "b", QT>>, <<"2">> >>) }

\* response envelopes: resp.json() of a 200 answer
Choice(msg, content, text) == [msg |-> msg, content |-> content, text |-> text]

EnvDict(hasChoices, choices) ==
  [type |-> "dict", hasChoices |-> hasChoices, choices |-> choices]

Envelopes ==
  { EnvDict(TRUE, <<Choice("dict", "text", t)>>) : t \in ServiceTexts }
    \cup { EnvDict(FALSE, <<>>),
           EnvDict(TRUE, <<>>),
           EnvDict(TRUE, <<Choice("absent", "absent", <<>>)>>),
           EnvDict(TRUE, <<Choice("dict", "absent", <<>>)>>),
           EnvDict(TRUE, <<Choice("dict", "null", <<>>)>>),
           EnvDict(TRUE, <<Choice("null", "absent", <<>>)>>),
           [type |-> "list", hasChoices |-> FALSE, choices |-> <<>>],
           [type |-> "null", hasChoices |-> FALSE, choices |-> <<>>] }

StatusCodes == {429, 500}
TransportErrors == {"ConnectionError", "ReadTimeout"}

\* everything requests.post and resp.json() can produce for one call
Outcomes ==
  { [kind |-> "transport", code |-> 0, err |-> e, env |-> EnvDict(FALSE, <<>>)] :
      e \in TransportErrors }
    \cup { [kind |-> "status", code |-> c, err |-> "", env |-> EnvDict(FALSE, <<>>)] :
             c \in StatusCodes }
    \cup { [kind |-> "notjson", code |-> 200, err |-> "", env |-> EnvDict(FALSE, <<>>)] }
    \cup { [kind |-> "json", code |-> 200, err |-> "", env |-> e] : e \in Envelopes }

\* request bodies: request.json
NoPrice == [kind |-> "absent", num |-> 0, str |-> <<>>]
PriceNull == [kind |-> "null", num |-> 0, str |-> <<>>]
PriceNum(n) == [kind |-> "num", num |-> n, str |-> <<>>]
PriceStr(t) == [kind |-> "str", num |-> 0, str |-> t]

Prices ==
  { NoPrice, PriceNull, PriceNum(0), PriceNum(50000),
    PriceStr(<<>>), PriceStr(<<"2", "2">>), PriceStr(<<"a", "b">>) }

Bodies ==
  { [type |-> "dict", price |-> p] : p \in Prices }
    \cup { [type |-> "null", price |-> NoPrice],
           [type |-> "list", price |-> NoPrice],
           [type |-> "notjson", price |-> NoPrice] }

----------------------------------------------------------------------------
(* Configuration and the fixed parts of the handler *)

GROQ_MODEL == "mixtral-8x7b-32768"

KeyMissingMessage == <<"Groq API key not found. Check Render environment.">>
FallbackMessage == <<"Unable to fetch live property suggestions. Please retry.">>

\* f"Error: {str(e)}"
ErrorMessage(e) == <<"Error: ">> \o e

\* f"Groq API returned {resp.status_code}"
StatusError(code) == <<"Groq API returned ", ToString(code)>>

NoExc == [raised |-> FALSE, msg |-> <<>>]
Raise(msg) == [raised |-> TRUE, msg |-> msg]

NoResponse == [sent |-> FALSE, suggestion |-> <<>>]
\* jsonify({"suggestion": l})
Jsonify(l) == [sent |-> TRUE, suggestion |-> l]

----------------------------------------------------------------------------
(* price = float(data.get("price", 0) or 0) *)

RECURSIVE DigitsToNat(_)
DigitsToNat(t) ==
  IF t = <<>> THEN 0
  ELSE 10 * DigitsToNat(SubSeq(t, 1, Len(t) - 1))
         + (CHOOSE d \in 0..9 : ToString(d) = t[Len(t)])

AllDigits(t) == t # <<>> /\ \A k \in 1..Len(t) : \E d \in 0..9 : ToString(d) = t[k]

\* float(x) for a string x: surrounding whitespace is ignored, a run of
\* digits converts, anything else raises ValueError
FloatOfStr(t) ==
  IF AllDigits(Strip(t))
  THEN [exc |-> NoExc, value |-> DigitsToNat(Strip(t))]
  ELSE [exc |-> Raise(<<"could not convert string to float: ">> \o t), value |-> 0]

\* lines 76-77.  The result is the exception raised, or the price.
CoercePrice(body) ==
  IF body.type = "notjson"
    THEN [exc |-> Raise(<<"400 Bad Request">>), value |-> 0]
  ELSE IF body.type = "list"
    THEN [exc |-> Raise(<<"'list' object has no attribute 'get'">>), value |-> 0]
  ELSE IF body.type = "null" THEN [exc |-> NoExc, value |-> 0]
  ELSE LET p == body.price
       IN CASE p.kind = "absent" -> [exc |-> NoExc, value |-> 0]
            [] p.kind = "null"   -> [exc |-> NoExc, value |-> 0]
            [] p.kind = "num"    -> [exc |-> NoExc, value |-> p.num]
            [] p.kind = "str"    ->
                 IF p.str = <<>> THEN [exc |-> NoExc, value |-> 0]
                 ELSE FloatOfStr(p.str)

----------------------------------------------------------------------------
(* The two payloads *)

RECURSIVE DigitsOf(_)
DigitsOf(n) ==
  IF n < 10 THEN <<ToString(n)>>
  ELSE DigitsOf(n \div 10) \o <<ToString(n % 10)>>

RECURSIVE Commas(_)
Commas(ds) ==
  IF Len(ds) <= 3 THEN ds
  ELSE Commas(SubSeq(ds, 1, Len(ds) - 3)) \o <<",">> \o SubSeq(ds, Len(ds) - 2, Len(ds))

\* f"{price:,.2f}" for a whole number of rupees
FormatPrice(p) == Commas(DigitsOf(p)) \o <<".", "0", "0">>

user_prompt(p) ==
  <<"Monthly rent budget: ">> \o FormatPrice(p)
    \o <<". Find 3-5 realistic and unique luxury rental properties within this budget. Output only a JSON array of strings.">>

retry_prompt ==
  <<"Retry and return 3-5 unique global properties as a valid JSON array of strings. Do not include explanations or text.">>

MaxTokens1 == 280
Temperature1 == 80
MaxTokens2 == 250
Temperature2 == 85

\* temperature is in hundredths
payload(p) ==
  [model |-> GROQ_MODEL,
   system |-> "You are a global real estate AI assistant that outputs only JSON arrays of property names.",
   user |-> user_prompt(p),
   max_tokens |-> MaxTokens1,
   temperature |-> Temperature1]

payload_retry ==
  [model |-> GROQ_MODEL,
   system |-> "Return only valid JSON arrays of global property names.",
   user |-> retry_prompt,
   max_tokens |-> MaxTokens2,
   temperature |-> Temperature2]

----------------------------------------------------------------------------
(* call_groq, after requests.post has returned or raised *)

\* as ExtractContent, but indexing j["choices"][0]["message"]["content"]
\* without the membership test and the defaults of get
ExtractContent_Indexing(j) ==
  IF j.type # "dict" \/ ~j.hasChoices
    THEN [exc |-> Raise(<<"'choices'">>), text |-> <<>>]
  ELSE IF Len(j.choices) = 0
    THEN [exc |-> Raise(<<"list index out of range">>), text |-> <<>>]
  ELSE LET c == j.choices[1]
       IN IF c.msg # "dict"
            THEN [exc |-> Raise(<<"'message'">>), text |-> <<>>]
          ELSE IF c.content # "text"
            THEN [exc |-> Raise(<<"'content'">>), text |-> <<>>]
          ELSE [exc |-> NoExc, text |-> Strip(c.text)]

\* lines 97-103: the text of the first choice, stripped, or the exception
\* the lookups raise
ExtractContent(j) ==
  IF j.type = "null"
    THEN [exc |-> Raise(<<"argument of type 'NoneType' is not iterable">>), text |-> <<>>]
  ELSE IF ~j.hasChoices \/ Len(j.choices) = 0
    THEN [exc |-> NoExc, text |-> <<>>]
  ELSE LET c == j.choices[1]
       IN IF c.msg = "null"
            THEN [exc |-> Raise(<<"'NoneType' object has no attribute 'get'">>), text |-> <<>>]
          ELSE IF c.msg = "absent" \/ c.content = "absent"
            THEN [exc |-> NoExc, text |-> <<>>]
          ELSE IF c.content = "null"
            THEN [exc |-> Raise(<<"'NoneType' object has no attribute 'strip'">>), text |-> <<>>]
          ELSE [exc |-> NoExc, text |-> Strip(c.text)]

\* lines 84-103 for one outcome of the external call
call_groq(o) ==
  CASE o.kind = "transport" -> [exc |-> Raise(<<o.err>>), text |-> <<>>]
    [] o.kind = "status"    -> [exc |-> Raise(StatusError(o.code)), text |-> <<>>]
    [] o.kind = "notjson"   -> [exc |-> Raise(<<"Expecting value: line 1 column 1 (char 0)">>), text |-> <<>>]
    [] o.kind = "json"      -> ExtractContent(o.env)

----------------------------------------------------------------------------
(* The handler as a state machine *)

VARIABLES
  GROQ_KEY,     \* TRUE when GROQ_API_KEY was set at startup
  pc,           \* position of the handler
  data,         \* request.json of the request being served
  price,
  calls,        \* requests.post invocations made for this request
  inflight,     \* requests.post invocations that have not returned
  sent,         \* the payloads posted, in order
  outcomes,     \* what requests.post produced for each call, in order
  sleeps,       \* time.sleep invocations made for this request
  raw, raw_clean, raw2, raw2_clean,
  parsed,
  exc,          \* the exception the handler's except clause caught
  response      \* what the handler returned

\* clean_text and parse_json_array applied on their own to a text
VARIABLES
  fpc,          \* "off", or how far the text has been processed
  fin,          \* the text
  fout,         \* clean_text(fin)
  fout2,        \* clean_text(fout)
  fparsed       \* parse_json_array(fin)

\* requests served at the same time by the threads of the server
VARIABLES
  reqs          \* the handler's position and locals, per request

functions == <<fpc, fin, fout, fout2, fparsed>>
aux == <<functions, reqs>>

vars == <<GROQ_KEY, pc, data, price, calls, inflight, sent, outcomes, sleeps,
          raw, raw_clean, raw2, raw2_clean, parsed, exc, response, aux>>

locals == <<raw, raw_clean, raw2, raw2_clean, parsed>>
network == <<calls, inflight, sent, outcomes, sleeps>>

\* no request is being served by the handler
HandlerIdle ==
  /\ pc = "idle"
  /\ data = [type |-> "null", price |-> NoPrice]
  /\ price = 0
  /\ calls = 0 /\ inflight = 0 /\ sent = <<>> /\ outcomes = <<>> /\ sleeps = 0
  /\ raw = <<>> /\ raw_clean = <<>> /\ raw2 = <<>> /\ raw2_clean = <<>>
  /\ parsed = None
  /\ exc = NoExc
  /\ response = NoResponse

FunctionsOff ==
  /\ fpc = "off" /\ fin = <<>> /\ fout = <<>> /\ fout2 = <<>> /\ fparsed = None

Init ==
  /\ GROQ_KEY \in BOOLEAN
  /\ HandlerIdle
  /\ FunctionsOff
  /\ reqs = <<>>

\* Flask dispatches a POST /suggest to the handler; every request starts
\* with fresh locals.
Request(body) ==
  /\ pc \in {"idle", "done"}
  /\ pc' = "coerce"
  /\ data' = body
  /\ price' = 0
  /\ calls' = 0 /\ inflight' = 0 /\ sent' = <<>> /\ outcomes' = <<>> /\ sleeps' = 0
  /\ raw' = <<>> /\ raw_clean' = <<>> /\ raw2' = <<>> /\ raw2_clean' = <<>>
  /\ parsed' = None
  /\ exc' = NoExc
  /\ response' = NoResponse
  /\ UNCHANGED <<aux, GROQ_KEY>>

\* lines 76-77
Coerce ==
  /\ pc = "coerce"
  /\ LET r == CoercePrice(data)
     IN IF r.exc.raised
        THEN /\ exc' = r.exc
             /\ pc' = "except"
             /\ UNCHANGED price
        ELSE /\ price' = r.value
             /\ pc' = "check_key"
             /\ UNCHANGED exc
  /\ UNCHANGED <<aux, GROQ_KEY, data, network, locals, response>>

\* lines 79-80
CheckKey ==
  /\ pc = "check_key"
  /\ IF ~GROQ_KEY
     THEN /\ response' = Jsonify(<<KeyMissingMessage>>)
          /\ pc' = "done"
     ELSE /\ pc' = "attempt1"
          /\ UNCHANGED response
  /\ UNCHANGED <<aux, GROQ_KEY, data, price, network, locals, exc>>

\* lines 106-130, up to requests.post being invoked
Send1 ==
  /\ pc = "attempt1"
  /\ calls' = calls + 1
  /\ inflight' = inflight + 1
  /\ sent' = Append(sent, payload(price))
  /\ pc' = "wait1"
  /\ UNCHANGED <<aux, GROQ_KEY, data, price, outcomes, sleeps, locals, exc, response>>

\* as Return1, but a failed call is followed by the retry
Return1_RetryOnError(o) ==
  /\ pc = "wait1"
  /\ inflight' = inflight - 1
  /\ outcomes' = Append(outcomes, o)
  /\ LET r == call_groq(o)
     IN IF r.exc.raised
        THEN /\ pc' = "backoff"
             /\ UNCHANGED <<raw, exc>>
        ELSE /\ raw' = r.text
             /\ pc' = "validate1"
             /\ UNCHANGED exc
  /\ UNCHANGED <<aux, GROQ_KEY, data, price, calls, sent, sleeps,
                 raw_clean, raw2, raw2_clean, parsed, response>>

\* line 130: call_groq returns the text or raises
Return1(o) ==
  /\ pc = "wait1"
  /\ inflight' = inflight - 1
  /\ outcomes' = Append(outcomes, o)
  /\ LET r == call_groq(o)
     IN IF r.exc.raised
        THEN /\ exc' = r.exc
             /\ pc' = "except"
             /\ UNCHANGED raw
        ELSE /\ raw' = r.text
             /\ pc' = "validate1"
             /\ UNCHANGED exc
  /\ UNCHANGED <<aux, GROQ_KEY, data, price, calls, sent, sleeps,
                 raw_clean, raw2, raw2_clean, parsed, response>>

\* as Validate1, but the retry is made whatever the validator said
Validate1_AlwaysRetry ==
  /\ pc = "validate1"
  /\ raw_clean' = clean_text(raw)
  /\ parsed' = parse_json_array(raw_clean')
  /\ pc' = "backoff"
  /\ UNCHANGED <<aux, GROQ_KEY, data, price, network, raw, raw2, raw2_clean, exc, response>>

\* lines 131-135
Validate1 ==
  /\ pc = "validate1"
  /\ raw_clean' = clean_text(raw)
  /\ parsed' = parse_json_array(raw_clean')
  /\ pc' = IF ~Truthy(parsed') THEN "backoff" ELSE "respond"
  /\ UNCHANGED <<aux, GROQ_KEY, data, price, network, raw, raw2, raw2_clean, exc, response>>

\* as Backoff, without the call of time.sleep
Backoff_NoSleep ==
  /\ pc = "backoff"
  /\ pc' = "attempt2"
  /\ UNCHANGED <<aux, GROQ_KEY, data, price, network, locals, exc, response>>

\* lines 136-149: the retry payload is built, then time.sleep(0.5)
Backoff ==
  /\ pc = "backoff"
  /\ sleeps' = sleeps + 1
  /\ pc' = "attempt2"
  /\ UNCHANGED <<aux, GROQ_KEY, data, price, calls, inflight, sent, outcomes, locals, exc, response>>

\* line 150, up to requests.post being invoked
Send2 ==
  /\ pc = "attempt2"
  /\ calls' = calls + 1
  /\ inflight' = inflight + 1
  /\ sent' = Append(sent, payload_retry)
  /\ pc' = "wait2"
  /\ UNCHANGED <<aux, GROQ_KEY, data, price, outcomes, sleeps, locals, exc, response>>

\* line 150: call_groq returns the text or raises
Return2(o) ==
  /\ pc = "wait2"
  /\ inflight' = inflight - 1
  /\ outcomes' = Append(outcomes, o)
  /\ LET r == call_groq(o)
     IN IF r.exc.raised
        THEN /\ exc' = r.exc
             /\ pc' = "except"
             /\ UNCHANGED raw2
        ELSE /\ raw2' = r.text
             /\ pc' = "validate2"
             /\ UNCHANGED exc
  /\ UNCHANGED <<aux, GROQ_KEY, data, price, calls, sent, sleeps,
                 raw, raw_clean, raw2_clean, parsed, response>>

\* as Validate2, but the second result is not assigned to parsed
Validate2_KeepParsed ==
  /\ pc = "validate2"
  /\ raw2_clean' = clean_text(raw2)
  /\ pc' = "respond"
  /\ UNCHANGED <<aux, GROQ_KEY, data, price, network, raw, raw_clean, raw2, parsed, exc, response>>

\* as Validate2, but a second list that validates is returned after the
\* strings that the first text held
Validate2_Merge ==
  /\ pc = "validate2"
  /\ raw2_clean' = clean_text(raw2)
  /\ parsed' = LET second == parse_json_array(raw2_clean')
                   first == parse_json_array_SkipNonStrings(raw_clean)
               IN IF Truthy(second) THEN Some(first.list \o second.list) ELSE second
  /\ pc' = "respond"
  /\ UNCHANGED <<aux, GROQ_KEY, data, price, network, raw, raw_clean, raw2, exc, response>>

\* lines 151-152
Validate2 ==
  /\ pc = "validate2"
  /\ raw2_clean' = clean_text(raw2)
  /\ parsed' = parse_json_array(raw2_clean')
  /\ pc' = "respond"
  /\ UNCHANGED <<aux, GROQ_KEY, data, price, network, raw, raw_clean, raw2, exc, response>>

\* as Respond, without the else branch
Respond_NoFallback ==
  /\ pc = "respond"
  /\ response' = Jsonify(parsed.list)
  /\ pc' = "done"
  /\ UNCHANGED <<aux, GROQ_KEY, data, price, network, locals, exc>>

\* as Respond, but testing "parsed is not None" where the code tests "parsed"
Respond_NotNone ==
  /\ pc = "respond"
  /\ response' = IF ~parsed.none THEN Jsonify(parsed.list)
                 ELSE Jsonify(<<FallbackMessage>>)
  /\ pc' = "done"
  /\ UNCHANGED <<aux, GROQ_KEY, data, price, network, locals, exc>>

\* lines 154-157
Respond ==
  /\ pc = "respond"
  /\ response' = IF Truthy(parsed) THEN Jsonify(parsed.list)
                 ELSE Jsonify(<<FallbackMessage>>)
  /\ pc' = "done"
  /\ UNCHANGED <<aux, GROQ_KEY, data, price, network, locals, exc>>

\* as Except, but the exception is raised again and leaves the handler
Except_Reraise ==
  /\ pc = "except"
  /\ pc' = "crashed"
  /\ UNCHANGED <<aux, GROQ_KEY, data, price, network, locals, exc, response>>

\* lines 159-162
Except ==
  /\ pc = "except"
  /\ response' = Jsonify(<<ErrorMessage(exc.msg)>>)
  /\ pc' = "done"
  /\ UNCHANGED <<aux, GROQ_KEY, data, price, network, locals, exc>>

Step ==
  \/ Coerce \/ CheckKey
  \/ Send1 \/ (\E o \in Outcomes : Return1(o)) \/ Validate1
  \/ Backoff
  \/ Send2 \/ (\E o \in Outcomes : Return2(o)) \/ Validate2
  \/ Respond \/ Except

Next == (\E body \in Bodies : Request(body)) \/ Step

Spec == Init /\ [][Next]_vars

\* requests.post is bounded by timeout=30 and time.sleep(0.5) returns, and
\* the handler's thread keeps running: a request that has started is never
\* left standing.
FairSpec == Spec /\ WF_vars(Step)

----------------------------------------------------------------------------
(* clean_text and parse_json_array as functions of a text: the text is     *)
(* drawn from bounded sets, clean_text is applied to it and to its own     *)
(* result, parse_json_array is applied to it.                              *)

\* longest text spelled freely over an alphabet
MaxTextLen == 4

SeqsUpTo(S, n) == UNION { [1..k -> S] : k \in 0..n }

\* symbols of markup, and symbols of JSON
MarkupAlphabet == {LT, GT, SL, "think", "a", SP}
JsonAlphabet == {LB, RB, QT, CM, "a", SP, "2"}

\* a span between an opening and a closing marker, with text around it
SpanText(A, w1, B, w2, C) == A \o <<LT, w1, GT>> \o B \o <<LT, SL, w2, GT>> \o C

MarkerWords == ThinkWord \cup {"reasoning"}
Before == { <<>>, <<"A">>, <<SP, "A">> }
Inside == { <<>>, <<"B">>, <<"B", NL, "B">>, <<LT, "B", GT>> }
After == { <<>>, <<"C">>, <<"C", NL>> }

SpanTexts ==
  { SpanText(A, w1, B, w2, C) :
      A \in Before, w1 \in MarkerWords, B \in Inside, w2 \in MarkerWords, C \in After }

\* spans inside spans, spans that overlap, a tag broken by a newline
NestedTexts ==
  { SpanText(<<>>, "think", SpanText(<<"a">>, "THINK", <<"B">>, "think", <<"C">>),
             "think", <<"d">>),
    SpanText(<<>>, "think", <<LT, "b">>, "think", <<GT, "C">>),
    <<LT, "b", LT, "think", GT, GT, "a", LT, SL, "think", GT, "C">>,
    <<LT, LT, "b", GT, GT, SP, LT, "b", NL, GT, SP>>,
    <<LT, "think", GT, "a", NL, LT, "b", GT>> }

FunctionTexts ==
  SeqsUpTo(MarkupAlphabet, MaxTextLen) \cup SeqsUpTo(JsonAlphabet, MaxTextLen)
    \cup SpanTexts \cup NestedTexts \cup ServiceTexts

FunctionInit ==
  /\ GROQ_KEY = FALSE
  /\ HandlerIdle
  /\ reqs = <<>>
  /\ fpc = "text"
  /\ fin \in FunctionTexts
  /\ fout = <<>> /\ fout2 = <<>> /\ fparsed = None

handler == <<GROQ_KEY, pc, data, price, network, locals, exc, response>>

\* clean_text(text)
Sanitize ==
  /\ fpc = "text"
  /\ fout' = clean_text(fin)
  /\ fpc' = "clean"
  /\ UNCHANGED <<handler, reqs, fin, fout2, fparsed>>

\* clean_text applied to what clean_text returned
Resanitize ==
  /\ fpc = "clean"
  /\ fout2' = clean_text(fout)
  /\ fpc' = "clean2"
  /\ UNCHANGED <<handler, reqs, fin, fout, fparsed>>

\* parse_json_array(text)
Parse ==
  /\ fpc = "clean2"
  /\ fparsed' = parse_json_array(fin)
  /\ fpc' = "parsed"
  /\ UNCHANGED <<handler, reqs, fin, fout, fout2>>

FunctionNext == Sanitize \/ Resanitize \/ Parse

FunctionSpec == FunctionInit /\ [][FunctionNext]_vars

----------------------------------------------------------------------------
(* Requests served at the same time.  Each call of suggest runs in a       *)
(* thread of the server with its own locals; the module's globals          *)
(* (GROQ_KEY, GROQ_URL, GROQ_MODEL) are the only names the calls share.    *)
(* The variables of the handler hold the locals of the thread that is      *)
(* running, reqs.saved the locals of the threads that are not, and the     *)
(* scheduler may switch threads between any two steps.                     *)

\* requests in progress at the same time
NumRequests == 2

Requests == 1..NumRequests

\* the locals of the call that is running
Locals ==
  [pc |-> pc, data |-> data, price |-> price, calls |-> calls,
   inflight |-> inflight, sent |-> sent, outcomes |-> outcomes, sleeps |-> sleeps,
   raw |-> raw, raw_clean |-> raw_clean, raw2 |-> raw2, raw2_clean |-> raw2_clean,
   parsed |-> parsed, exc |-> exc, response |-> response]

\* the locals of a thread that serves no request
IdleLocals ==
  [pc |-> "idle", data |-> [type |-> "null", price |-> NoPrice], price |-> 0,
   calls |-> 0, inflight |-> 0, sent |-> <<>>, outcomes |-> <<>>, sleeps |-> 0,
   raw |-> <<>>, raw_clean |-> <<>>, raw2 |-> <<>>, raw2_clean |-> <<>>,
   parsed |-> None, exc |-> NoExc, response |-> NoResponse]

\* the locals of request r
LocalsOf(r) == IF r = reqs.cur THEN Locals ELSE reqs.saved[r]

ConcBodies ==
  { [type |-> "dict", price |-> PriceNum(50000)],
    [type |-> "dict", price |-> PriceStr(<<"a", "b">>)] }

ConcOutcomes ==
  { [kind |-> "status", code |-> 500, err |-> "", env |-> EnvDict(FALSE, <<>>)],
    [kind |-> "json", code |-> 200, err |-> "",
     env |-> EnvDict(TRUE, <<Choice("dict", "text", <<"a", SP, "b">>)>>)],
    [kind |-> "json", code |-> 200, err |-> "",
     env |-> EnvDict(TRUE, <<Choice("dict", "text", ArrayText(<< <<QT, SP, "a", SP, QT>> >>))>>)] }

ConcInit ==
  /\ GROQ_KEY \in BOOLEAN
  /\ HandlerIdle
  /\ FunctionsOff
  /\ reqs = [cur |-> 1, saved |-> [r \in Requests |-> IdleLocals]]

\* as Switch, but parsed is a name the threads share: it is neither saved
\* nor restored
Switch_SharedParsed(r) ==
  /\ r \in Requests /\ r # reqs.cur
  /\ reqs' = [cur |-> r,
              saved |-> [reqs.saved EXCEPT ![reqs.cur] = Locals, ![r] = IdleLocals]]
  /\ LET l == reqs.saved[r]
     IN /\ pc' = l.pc /\ data' = l.data /\ price' = l.price
        /\ calls' = l.calls /\ inflight' = l.inflight /\ sent' = l.sent
        /\ outcomes' = l.outcomes /\ sleeps' = l.sleeps
        /\ raw' = l.raw /\ raw_clean' = l.raw_clean
        /\ raw2' = l.raw2 /\ raw2_clean' = l.raw2_clean
        /\ exc' = l.exc /\ response' = l.response
  /\ UNCHANGED <<GROQ_KEY, functions, parsed>>

\* the thread of request r goes on where it stood, the running thread waits
Switch(r) ==
  /\ r \in Requests /\ r # reqs.cur
  /\ reqs' = [cur |-> r,
              saved |-> [reqs.saved EXCEPT ![reqs.cur] = Locals, ![r] = IdleLocals]]
  /\ LET l == reqs.saved[r]
     IN /\ pc' = l.pc /\ data' = l.data /\ price' = l.price
        /\ calls' = l.calls /\ inflight' = l.inflight /\ sent' = l.sent
        /\ outcomes' = l.outcomes /\ sleeps' = l.sleeps
        /\ raw' = l.raw /\ raw_clean' = l.raw_clean
        /\ raw2' = l.raw2 /\ raw2_clean' = l.raw2_clean
        /\ parsed' = l.parsed
        /\ exc' = l.exc /\ response' = l.response
  /\ UNCHANGED <<GROQ_KEY, functions>>

ConcStep ==
  \/ Coerce \/ CheckKey
  \/ Send1 \/ (\E o \in ConcOutcomes : Return1(o)) \/ Validate1
  \/ Backoff
  \/ Send2 \/ (\E o \in ConcOutcomes : Return2(o)) \/ Validate2
  \/ Respond \/ Except

ConcNext ==
  \/ \E body \in ConcBodies : Request(body)
  \/ ConcStep
  \/ \E r \in Requests : Switch(r)

ConcSpec == ConcInit /\ [][ConcNext]_vars

----------------------------------------------------------------------------
(* Vocabulary of the properties *)

Done == pc = "done"

\* the call produced text: requests.post returned 200 and call_groq
\* extracted the content without raising
ReturnedText(o) == o.kind = "json" /\ ~call_groq(o).exc.raised
TextOf(o) == call_groq(o).text

\* non-success status, or requests.post raised
ServiceUnreachable(o) == o.kind \in {"transport", "status"}

\* the sanitized text is a JSON array of strings with a non-blank element
ValidList(t) ==
  LET v == json_loads(clean_text(t))
  IN /\ v.ok
     /\ v.val.type = "list"
     /\ \A k \in 1..Len(v.val.items) : v.val.items[k].type = "str"
     /\ \E k \in 1..Len(v.val.items) : Strip(v.val.items[k].s) # <<>>

\* the non-blank elements of that array, trimmed, in their order
TrimmedElements(t) ==
  LET items == json_loads(clean_text(t)).val.items
      kept  == SelectSeq(items, LAMBDA x : Strip(x.s) # <<>>)
  IN [k \in 1..Len(kept) |-> Strip(kept[k].s)]

MalformedOutput(o) == ReturnedText(o) /\ ~ValidList(TextOf(o))
ValidOutput(o) == ReturnedText(o) /\ ValidList(TextOf(o))

----------------------------------------------------------------------------
(* C1: every request that the handler starts on reaches its terminal      *)
(* state and has returned a response there; no exception leaves the       *)
(* handler.  Checked under FairSpec.                                       *)
C1_Terminates == (pc = "coerce") ~> (Done /\ response.sent)

\* a request ended through the except clause after its second call raised
C1_Witness == Done /\ response.sent /\ exc.raised /\ Len(outcomes) = 2

(* C2: if the first call's sanitized text fails validation and the second *)
(* call's text passes it, the request makes exactly 2 calls and succeeds   *)
(* with the list validated from the second call's text.                    *)
C2_RetrySucceeds ==
  ( /\ Done
    /\ Len(outcomes) >= 1
    /\ MalformedOutput(outcomes[1])
    /\ Len(outcomes) >= 2 => ValidOutput(outcomes[2]) )
  => /\ calls = 2
     /\ Len(outcomes) = 2
     /\ response = Jsonify(TrimmedElements(TextOf(outcomes[2])))

C2_Witness ==
  /\ Done /\ Len(outcomes) = 2
  /\ MalformedOutput(outcomes[1]) /\ ValidOutput(outcomes[2])
  /\ response.suggestion = << <<"a">> >>

(* C3: if both calls return text and neither sanitized text validates,    *)
(* the response is the list holding exactly the fixed placeholder, after   *)
(* exactly 2 calls, and no exception was raised.                           *)
C3_FallbackAfterTwo ==
  ( /\ Done
    /\ Len(outcomes) >= 1
    /\ MalformedOutput(outcomes[1])
    /\ Len(outcomes) >= 2 => MalformedOutput(outcomes[2]) )
  => /\ calls = 2
     /\ Len(outcomes) = 2
     /\ ~exc.raised
     /\ response = Jsonify(<<FallbackMessage>>)

\* "garbage" both times
C3_Witness ==
  /\ Done /\ Len(outcomes) = 2
  /\ TextOf(outcomes[1]) = <<"a", SP, "b">> /\ MalformedOutput(outcomes[1])
  /\ TextOf(outcomes[2]) = <<"a", SP, "b">> /\ MalformedOutput(outcomes[2])
  /\ response = Jsonify(<<FallbackMessage>>)

\* a request ended by a failure of the external service
ServiceFailure ==
  /\ Len(outcomes) >= 1
  /\ \/ ServiceUnreachable(outcomes[1])
     \/ /\ Len(outcomes) = 2
        /\ MalformedOutput(outcomes[1])
        /\ ServiceUnreachable(outcomes[2]) \/ MalformedOutput(outcomes[2])

(* C4: whenever a request ends because the external service failed (a     *)
(* non-success status or a transport failure on either attempt, or         *)
(* malformed output on both), the response is the one fixed placeholder.   *)
C4_SameFallback ==
  (Done /\ ServiceFailure) => response = Jsonify(<<FallbackMessage>>)

(* C5: with no credential configured a request (its body a JSON object)   *)
(* makes no external call and ends in the configuration-failure response,  *)
(* which differs from the placeholder.                                     *)
C5_ConfigShortCircuit ==
  (Done /\ ~GROQ_KEY /\ data.type = "dict")
  => /\ calls = 0 /\ sent = <<>> /\ outcomes = <<>>
     /\ response = Jsonify(<<KeyMissingMessage>>)
     /\ KeyMissingMessage # FallbackMessage

C7_TwoSequentialCalls ==
  /\ [](calls <= 2 /\ inflight <= 1 /\ Len(sent) = calls)
  /\ [][ (calls' = calls + 1 /\ calls >= 1)
           => /\ calls = 1 /\ inflight = 0
              /\ Len(outcomes) = 1 /\ ReturnedText(outcomes[1])
              /\ raw = TextOf(outcomes[1])
              /\ raw_clean = clean_text(raw)
              /\ ~Truthy(parsed) /\ parsed = parse_json_array(raw_clean) ]_vars

C7_Witness == calls = 2 /\ inflight = 1 /\ raw # raw_clean

(* C8: if the first call fails with a non-success status or a transport   *)
(* failure there is no second call and no backoff: the request goes to     *)
(* its end with exactly 1 call.                                            *)
C8_NoRetryOnUnreachable ==
  (Len(outcomes) >= 1 /\ ServiceUnreachable(outcomes[1]))
  => /\ calls = 1 /\ Len(outcomes) = 1 /\ sleeps = 0
     /\ pc \in {"except", "done"}

C8_Witness ==
  /\ Done /\ Len(outcomes) = 1 /\ outcomes[1].kind = "status" /\ calls = 1

\* the request is a JSON object with no price, or with one that is not a
\* number
PriceMissingOrNonNumeric ==
  /\ data.type = "dict"
  /\ \/ data.price.kind \in {"absent", "null"}
     \/ data.price.kind = "str" /\ ~AllDigits(Strip(data.price.str))

(* C9: a request whose price is missing or non-numeric is served as if    *)
(* the budget were 0: no error because of the price, and with a            *)
(* credential configured attempt 1 is sent for budget 0.                   *)
C9_PriceCoercedToZero ==
  (Done /\ PriceMissingOrNonNumeric)
  => /\ price = 0
     /\ calls = 0 => (~exc.raised /\ ~GROQ_KEY)
     /\ GROQ_KEY => (Len(sent) >= 1 /\ sent[1] = payload(0))

\* the symbols of the strings of a response body
RECURSIVE SymbolsOf(_)
SymbolsOf(l) ==
  IF l = <<>> THEN {}
  ELSE {Head(l)[k] : k \in 1..Len(Head(l))} \cup SymbolsOf(Tail(l))

(* C10: the body of a request that failed on an external call carries     *)
(* nothing of the failure's diagnostic detail (status code, exception      *)
(* message): requests that differ only in that detail get the same         *)
(* generic body.                                                           *)
C10_NoLeak ==
  (Done /\ exc.raised /\ Len(outcomes) >= 1
     /\ ServiceUnreachable(outcomes[Len(outcomes)]))
  => SymbolsOf(response.suggestion) \cap {exc.msg[k] : k \in 1..Len(exc.msg)} = {}

\* the request ended with the list validated from the service's text
Success ==
  /\ Done /\ response.sent /\ ~exc.raised /\ calls >= 1
  /\ response.suggestion # <<FallbackMessage>>

\* the sanitized text is a JSON array of strings, none with a non-blank
\* character: the empty array included
BlankList(t) ==
  LET v == json_loads(clean_text(t))
  IN /\ v.ok
     /\ v.val.type = "list"
     /\ \A k \in 1..Len(v.val.items) :
          v.val.items[k].type = "str" /\ Strip(v.val.items[k].s) = <<>>

(* C11: the list of a Success response has at least one element and each  *)
(* element is a non-empty string without leading or trailing whitespace;   *)
(* a request whose last answer from the service is an empty list or a      *)
(* list of blank strings does not end in Success.                          *)
C11_SuccessListTrimmed ==
  /\ Success
       => /\ Len(response.suggestion) >= 1
          /\ \A k \in 1..Len(response.suggestion) :
               /\ response.suggestion[k] # <<>>
               /\ Strip(response.suggestion[k]) = response.suggestion[k]
  /\ ( /\ Done /\ Len(outcomes) >= 1
       /\ ReturnedText(outcomes[Len(outcomes)])
       /\ BlankList(TextOf(outcomes[Len(outcomes)])) )
       => ~Success

\* [" "] first, then an array of a blank element and another
C11_Witness ==
  /\ Success /\ Len(outcomes) = 2
  /\ BlankList(TextOf(outcomes[1])) /\ TextOf(outcomes[1]) # ArrayText(<<>>)
  /\ Len(json_loads(clean_text(TextOf(outcomes[2]))).val.items) = 2
  /\ Len(response.suggestion) = 1

----------------------------------------------------------------------------
(* C12: clean_text is idempotent: applied to its own result it returns    *)
(* that result, for every text, nested, overlapping and unclosed spans     *)
(* and markers across newlines included.  Checked under FunctionSpec.      *)
C12_SanitizeIdempotent ==
  fpc \in {"clean2", "parsed"} => fout2 = fout

\* spans inside spans, spans that overlap or a tag broken by a newline:
\* something was removed and something is left
C12_Witness ==
  /\ fpc = "clean2" /\ fin \in NestedTexts
  /\ fout # fin /\ fout # <<>> /\ fout2 = fout

Sanitized == fpc \in {"clean", "clean2", "parsed"}

(* C13, as stated: for the input "A<reasoning>B</reasoning>C" the         *)
(* sanitizer's output is "AC".                                             *)
C13_ReasoningSpanRemoved ==
  (Sanitized /\ fin = SpanText(<<"A">>, "reasoning", <<"B">>, "reasoning", <<"C">>))
  => fout = <<"A", "C">>

(* C13, amended: the marker is the tag "think".  A span from "<think>" to *)
(* the first "</think>" after it is removed with its delimiters and its    *)
(* content, whatever the case of the tags and with newlines inside: for    *)
(* text without angle brackets around the span, the output is the text     *)
(* before and after the span, trimmed; "A<think>B</think>C" gives "AC".    *)
C13_ThinkSpanRemoved ==
  Sanitized
  => \A A \in Before, B \in Inside, C \in After, w1 \in ThinkWord, w2 \in ThinkWord :
       fin = SpanText(A, w1, B, w2, C) => fout = Strip(A \o C)

\* "A<think>B\nB</THINK>C" has become "AC"
C13_Witness ==
  /\ fpc = "clean"
  /\ fin = SpanText(<<"A">>, "think", <<"B", NL, "B">>, "THINK", <<"C">>)
  /\ fout = <<"A", "C">>

(* C14: parse_json_array yields no list to return (None or []) for every *)
(* text that json.loads rejects or reads as something other than a list,   *)
(* for every list with an element that is not a string, and for every      *)
(* list of strings of which none has a non-blank character.  Checked       *)
(* under FunctionSpec.                                                     *)
C14_ValidatorRejects ==
  fpc = "parsed"
  => LET v == json_loads(fin)
     IN ( \/ ~v.ok
          \/ v.val.type # "list"
          \/ \E k \in 1..Len(v.val.items) : v.val.items[k].type # "str"
          \/ \A k \in 1..Len(v.val.items) : Strip(v.val.items[k].s) = <<>> )
        => ~Truthy(fparsed)

\* [" a ", 2]: the string would do, the number has the whole list rejected
C14_Witness ==
  /\ fpc = "parsed"
  /\ fin = ArrayText(<< <<QT, SP, "a", SP, QT>>, <<"2">> >>)
  /\ fparsed = None

----------------------------------------------------------------------------
\* the call returned 200 with a JSON object that has no "choices" key, an
\* empty "choices", a first choice without "message", or a message without
\* "content"
LacksContent(o) ==
  /\ o.kind = "json" /\ o.env.type = "dict"
  /\ \/ ~o.env.hasChoices
     \/ Len(o.env.choices) = 0
     \/ o.env.choices[1].msg = "absent"
     \/ o.env.choices[1].msg = "dict" /\ o.env.choices[1].content = "absent"

(* C15: a call whose envelope lacks choices[0].message.content gives the  *)
(* empty text and raises nothing; as the first call it is followed by the  *)
(* backoff and the second call, as the second call it ends the request in  *)
(* the placeholder response.                                               *)
C15_MissingContentIsEmptyText ==
  /\ \A k \in 1..Len(outcomes) :
       LacksContent(outcomes[k]) => call_groq(outcomes[k]) = [exc |-> NoExc, text |-> <<>>]
  /\ (Len(outcomes) >= 1 /\ LacksContent(outcomes[1]))
       => /\ raw = <<>>
          /\ Len(outcomes) = 1
               => ~exc.raised /\ pc \in {"validate1", "backoff", "attempt2", "wait2"}
          /\ Done => calls = 2 /\ sleeps = 1
  /\ (Done /\ Len(outcomes) = 2 /\ LacksContent(outcomes[2]))
       => /\ ~exc.raised /\ raw2 = <<>>
          /\ response = Jsonify(<<FallbackMessage>>)

\* no "choices" key the first time, a message without "content" the second
C15_Witness ==
  /\ Done /\ Len(outcomes) = 2
  /\ outcomes[1].kind = "json" /\ outcomes[1].env = EnvDict(FALSE, <<>>)
  /\ outcomes[2].kind = "json"
  /\ outcomes[2].env = EnvDict(TRUE, <<Choice("dict", "absent", <<>>)>>)
  /\ response = Jsonify(<<FallbackMessage>>)

----------------------------------------------------------------------------
(* C16: the payload of the second call has a strictly lower temperature   *)
(* and a strictly smaller max_tokens than the payload of the first call.   *)
C16_RetryPayloadStricter ==
  Len(sent) = 2
  => /\ sent[2].temperature < sent[1].temperature
     /\ sent[2].max_tokens < sent[1].max_tokens

----------------------------------------------------------------------------
\* the text t occurs in the text s
Contains(s, t) ==
  \E i \in 0..(Len(s) - Len(t)) : SubSeq(s, i + 1, i + Len(t)) = t

(* C18: the user instruction of every payload that is sent, the second    *)
(* as well as the first, holds the request's budget as the prompt          *)
(* formats it.                                                             *)
C18_EveryPayloadNamesBudget ==
  \A k \in 1..Len(sent) : Contains(sent[k].user, FormatPrice(price))

----------------------------------------------------------------------------
(* C19: time.sleep is called once in a request that retries, after the    *)
(* first text has failed validation and before the second call is issued,  *)
(* and is not called in a request that ends after its first call or        *)
(* without a call.                                                         *)
C19_BackoffOnceBetweenAttempts ==
  /\ [](sleeps = (IF calls = 2 \/ pc = "attempt2" THEN 1 ELSE 0))
  /\ [][ sleeps' > sleeps
          => /\ sleeps = 0 /\ sleeps' = 1
             /\ calls = 1 /\ calls' = 1 /\ inflight = 0
             /\ Len(outcomes) = 1 /\ ReturnedText(outcomes[1])
             /\ parsed = parse_json_array(clean_text(TextOf(outcomes[1])))
             /\ ~Truthy(parsed) ]_vars

\* the request slept once and has had its second answer
C19_Witness == Done /\ sleeps = 1 /\ calls = 2 /\ Len(outcomes) = 2 /\ ~exc.raised

----------------------------------------------------------------------------
(* C20: a request that succeeds on its second call returns the non-blank  *)
(* elements of the second text's array, trimmed, in their order: nothing   *)
(* of the first call's text, raw or sanitized, is in the response.         *)
C20_SecondTextOnly ==
  (Success /\ Len(outcomes) = 2)
  => /\ response.suggestion = TrimmedElements(TextOf(outcomes[2]))
     /\ parsed = parse_json_array(clean_text(TextOf(outcomes[2])))

\* ["b", 2] the first time, an array with the element " a " the second
C20_Witness ==
  /\ Success /\ Len(outcomes) = 2
  /\ TextOf(outcomes[1]) = ArrayText(<< <<QT, "b", QT>>, <<"2">> >>)
  /\ raw_clean = raw
  /\ response.suggestion = << <<"a">> >>

----------------------------------------------------------------------------
(* C17: whatever the interleaving of the requests in progress, two         *)
(* requests that have ended with the same body and the same answers to     *)
(* their own calls have the same response and made the same number of      *)
(* calls, and no step changes the configuration.  Checked under ConcSpec.  *)
C17_NoSharedState ==
  /\ [](\A r1 \in Requests, r2 \in Requests :
         ( /\ LocalsOf(r1).pc = "done" /\ LocalsOf(r2).pc = "done"
           /\ LocalsOf(r1).data = LocalsOf(r2).data
           /\ LocalsOf(r1).outcomes = LocalsOf(r2).outcomes )
         => /\ LocalsOf(r1).response = LocalsOf(r2).response
            /\ LocalsOf(r1).calls = LocalsOf(r2).calls
            /\ LocalsOf(r1).calls = Len(LocalsOf(r1).outcomes))
  /\ [][GROQ_KEY' = GROQ_KEY]_vars

\* one request waits for its second answer while another waits for its
\* first, a third thread or none standing by
C17_Witness ==
  \E r1 \in Requests, r2 \in Requests :
    /\ LocalsOf(r1).pc = "wait2" /\ LocalsOf(r2).pc = "wait1"
    /\ LocalsOf(r1).data = LocalsOf(r2).data

====
